---- MODULE Spec2Model ----
(***************************************************************************)
(* Model of kernel/bpf/offload.c: the registry of offloaded BPF programs,  *)
(* its two locks (RTNL and the bpf_devs_lock rw-semaphore) and the         *)
(* life cycle init / verifier_prep / verify_insn / translate / destroy /   *)
(* info_fill / NETDEV_UNREGISTER notification.                             *)
(*                                                                         *)
(* Caller threads run the exported functions; one more thread (Notifier)   *)
(* is the netdev core delivering device events under RTNL.  Every blocking *)
(* lock call is a step of its own; code between two lock calls is one step *)
(* unless a claim is about an order inside it.                             *)
(*                                                                         *)
(* A descriptor (struct bpf_prog_offload) is identified by the program it  *)
(* was allocated for: offload->prog is the slot's index.                   *)
(***************************************************************************)
EXTENDS Integers, Sequences, FiniteSets

\* ---------------------------------------------------------------- bounds
NumProgs == 2
NumThreads == 2
MaxInsn == 1
MaxCalls == 2

\* ------------------------------------------------------ program constants
EPERM == 1
ENOENT == 2
EAGAIN == 11
ENOMEM == 12
ENODEV == 19
EINVAL == 22
EOPNOTSUPP == 95

NULL == 0
NoOwner == -1
Notifier == 0

Progs == 1 .. NumProgs
Callers == 1 .. NumThreads
Insns == 0 .. MaxInsn

\* The devices of the namespace.  DevPlain has no ndo_bpf handler; DevX and
\* DevY have one.  A device's ifindex is its identity here.
DevPlain == 1
DevX == 2
DevY == 3
Devs == {DevPlain, DevX, DevY}
NoSuchIfindex == 4
Ifindexes == Devs \cup {NoSuchIfindex}

HasNdoBpf(d) == d # DevPlain

NETREG_REGISTERED == "NETREG_REGISTERED"
NETREG_UNREGISTERING == "NETREG_UNREGISTERING"

NETDEV_UNREGISTER == "NETDEV_UNREGISTER"
NETDEV_UP == "NETDEV_UP"
Events == {NETDEV_UNREGISTER, NETDEV_UP}

\* What a driver's ndo_bpf handler may return: success or an error.
DriverResults == {0, -EINVAL}

\* The hook table a driver hands out in VERIFIER_PREP: one per device.
DriverOps(d) == d

\* The driver's insn_hook: a verdict that depends on the hook table and on
\* the instruction (device d's verifier rejects the instructions from d - 1).
InsnHook(ops, idx) == IF idx >= ops - 1 THEN -EINVAL ELSE 0

VARIABLES
    rtnl,                   \* owner of the RTNL mutex, or NoOwner
    devs_writer,            \* owner of bpf_devs_lock in write mode, or NoOwner
    devs_readers,           \* threads holding bpf_devs_lock in read mode
    bpf_prog_offload_devs,  \* the list of descriptors, head to tail
    mem,                    \* per slot: "none", "live" (kzalloc'ed), "freed", and
                            \* "used_after_free", "double_freed" once that happened
    offl,                   \* per slot: netdev, dev_ops, dev_state
    aux_offload,            \* per program: prog->aux->offload (NULL or the slot)
    prog_id,                \* per program: the id is still published
    reg_state,              \* per device: netdev->reg_state
    refcnt,                 \* per device: references taken by dev_get_by_index
    destroy_calls,          \* per program: BPF_OFFLOAD_DESTROY commands the driver got
    th,                     \* per caller thread: the call in progress
    k,                      \* the notifier thread
    snap                    \* the registry as the running sweep found it

vars == <<rtnl, devs_writer, devs_readers, bpf_prog_offload_devs, mem, offl,
          aux_offload, prog_id, reg_state, refcnt, destroy_calls,
          th, k, snap>>

\* kzalloc: a zeroed struct bpf_prog_offload.
ZeroOffload == [netdev |-> NULL, dev_ops |-> NULL, dev_state |-> FALSE]

\* A caller thread: the call it runs (op, pc, prog), the call's arguments
\* (cap and flags of init; idx of verify_insn), its locals (ret; ifindex and ns
\* of info_fill) and late (see VerifyInsnDownRead).
IdleThread == [op |-> "none", pc |-> "idle", prog |-> 0, ret |-> 0, idx |-> 0,
               cap |-> TRUE, flags |-> 0, ifindex |-> 0, ns |-> FALSE,
               late |-> FALSE]

IdleNotifier == [pc |-> "idle", event |-> NETDEV_UP, dev |-> 0, cur |-> NULL,
                 nxt |-> NULL, ret |-> 0]

NoSnap == [on |-> FALSE, offl |-> [p \in Progs |-> ZeroOffload],
           devs |-> <<>>, calls |-> [p \in Progs |-> 0]]

Init ==
    /\ rtnl = NoOwner
    /\ devs_writer = NoOwner
    /\ devs_readers = {}
    /\ bpf_prog_offload_devs = <<>>
    /\ mem = [p \in Progs |-> "none"]
    /\ offl = [p \in Progs |-> ZeroOffload]
    /\ aux_offload = [p \in Progs |-> NULL]
    /\ prog_id = [p \in Progs |-> TRUE]
    /\ reg_state = [d \in Devs |-> NETREG_REGISTERED]
    /\ refcnt = [d \in Devs |-> 0]
    /\ destroy_calls = [p \in Progs |-> 0]
    /\ th = [t \in Callers |-> IdleThread]
    /\ k = IdleNotifier
    /\ snap = NoSnap

\* ------------------------------------------------------------- helpers

\* list_add_tail, list_del_init and the traversal of list_for_each_entry_safe.
ListAddTail(l, x) == Append(l, x)
ListDelInit(l, x) == SelectSeq(l, LAMBDA y : y # x)
ListFirst(l) == IF l = <<>> THEN NULL ELSE l[1]
ListNext(l, x) ==
    IF x = NULL \/ ~(\E i \in 1 .. Len(l) : l[i] = x) THEN NULL
    ELSE LET i == CHOOSE j \in 1 .. Len(l) : l[j] = x
         IN  IF i = Len(l) THEN NULL ELSE l[i + 1]
Linked(p) == \E i \in 1 .. Len(bpf_prog_offload_devs) : bpf_prog_offload_devs[i] = p

\* dev_get_by_index: the device with that index if it is still listed.
DevGetByIndex(ifindex) ==
    IF ifindex \in Devs /\ reg_state[ifindex] = NETREG_REGISTERED THEN ifindex ELSE NULL

\* The calls in progress on a program.
Running(p, op) == \E t \in Callers : th[t].prog = p /\ th[t].op = op /\ th[t].pc # "done"
Busy(p) == \E t \in Callers : th[t].prog = p /\ th[t].pc # "done"

Set(t, r) == th' = [th EXCEPT ![t] = r]
Goto(t, pc) == th' = [th EXCEPT ![t].pc = pc]
Exit(t) == th' = [th EXCEPT ![t] = IdleThread]
Done(t, ret) == th' = [th EXCEPT ![t].pc = "done", ![t].ret = ret, ![t].idx = 0,
                                 ![t].ns = FALSE, ![t].late = FALSE]

\* kfree of a descriptor: a slot the program still points to is left dangling
\* ("freed"), and the kfree of a slot that is not live is a double free.
Kfree(p) ==
    [mem EXCEPT ![p] = IF @ # "live" THEN "double_freed"
                       ELSE IF aux_offload[p] = p THEN "freed"
                       ELSE "none"]

\* A read or write through a descriptor pointer: of freed memory it is a use
\* after free.
Deref(p) == [mem EXCEPT ![p] = IF @ = "freed" THEN "used_after_free" ELSE @]

\* --------------------------------------------------------------- locks
RtnlFree == rtnl = NoOwner
WriteLockFree == devs_writer = NoOwner /\ devs_readers = {}
ReadLockFree == devs_writer = NoOwner

\* ------------------------------------------------- bpf_dev_offload_check
bpf_dev_offload_check(netdev) ==
    IF netdev = NULL THEN -EINVAL
    ELSE IF ~HasNdoBpf(netdev) THEN -EOPNOTSUPP
    ELSE 0

\* ------------------------------------------------- bpf_prog_offload_init
\* Mutant of InitReject: the flags are checked first.
InitReject_FlagsFirst(cap, flags) ==
    IF flags # 0 THEN -EINVAL
    ELSE IF ~cap THEN -EPERM
    ELSE 0

\* Lines 32-36: the capability check, then the flags check.
InitReject(cap, flags) ==
    IF ~cap THEN -EPERM
    ELSE IF flags # 0 THEN -EINVAL
    ELSE 0

\* Lines 32-49: the two checks, kzalloc, the device lookup and the admission
\* check.  The program is a new one, which its loader (and nobody else) binds:
\* no descriptor yet and no other init on it, finished or not.  A call that
\* returns before kzalloc has touched nothing of the program: only its result
\* and the arguments that decided it are kept.
InitCall(t, p, cap, flags, ifindex, nomem) ==
    /\ th[t].pc = "idle"
    /\ aux_offload[p] = NULL
    /\ \A u \in Callers : ~(th[u].op = "init" /\ th[u].prog = p)
    /\ LET early == [IdleThread EXCEPT !.op = "init", !.pc = "done", !.cap = cap,
                                       !.flags = flags]
           start == [IdleThread EXCEPT !.op = "init", !.prog = p, !.cap = cap,
                                       !.flags = flags]
           netdev == DevGetByIndex(ifindex)
           err == bpf_dev_offload_check(netdev)
       IN  IF InitReject(cap, flags) # 0
           THEN /\ Set(t, [early EXCEPT !.ret = InitReject(cap, flags)])
                /\ UNCHANGED <<mem, offl, refcnt>>
           ELSE IF nomem
           THEN /\ Set(t, [early EXCEPT !.ret = -ENOMEM])
                /\ UNCHANGED <<mem, offl, refcnt>>
           ELSE /\ mem' = [mem EXCEPT ![p] = "live"]
                /\ offl' = [offl EXCEPT ![p] = [ZeroOffload EXCEPT !.netdev = netdev]]
                /\ refcnt' = IF netdev = NULL THEN refcnt
                             ELSE [refcnt EXCEPT ![netdev] = @ + 1]
                /\ IF err # 0
                   THEN Set(t, [start EXCEPT !.pc = "init_err_maybe_put", !.ret = err])
                   ELSE Set(t, [start EXCEPT !.pc = "init_down_write"])
    /\ UNCHANGED <<rtnl, devs_writer, devs_readers, bpf_prog_offload_devs,
                   aux_offload, prog_id, reg_state, destroy_calls, k, snap>>

\* Line 51.
InitDownWrite(t) ==
    /\ th[t].pc = "init_down_write"
    /\ WriteLockFree
    /\ devs_writer' = t
    /\ Goto(t, "init_reg_state")
    /\ UNCHANGED <<rtnl, devs_readers, bpf_prog_offload_devs, mem, offl, aux_offload,
                   prog_id, reg_state, refcnt, destroy_calls, k, snap>>

\* Mutant of InitRegState: line 52 is missing, the descriptor is published
\* whatever the device's reg_state.
InitRegState_NoCheck(t) ==
    /\ th[t].pc = "init_reg_state"
    /\ aux_offload' = [aux_offload EXCEPT ![th[t].prog] = th[t].prog]
    /\ Goto(t, "init_list_add")
    /\ UNCHANGED <<rtnl, devs_writer, devs_readers, bpf_prog_offload_devs, mem, offl,
                   prog_id, reg_state, refcnt, destroy_calls, k, snap>>

\* Lines 52-57: the registration check, then the descriptor is published.
InitRegState(t) ==
    /\ th[t].pc = "init_reg_state"
    /\ LET p == th[t].prog
       IN  IF reg_state[offl[p].netdev] # NETREG_REGISTERED
           THEN /\ Set(t, [th[t] EXCEPT !.pc = "init_err_unlock", !.ret = -EINVAL])
                /\ UNCHANGED aux_offload
           ELSE /\ aux_offload' = [aux_offload EXCEPT ![p] = p]
                /\ Goto(t, "init_list_add")
    /\ UNCHANGED <<rtnl, devs_writer, devs_readers, bpf_prog_offload_devs, mem, offl,
                   prog_id, reg_state, refcnt, destroy_calls, k, snap>>

\* Lines 58-59: list_add_tail and dev_put.
InitListAdd(t) ==
    /\ th[t].pc = "init_list_add"
    /\ LET p == th[t].prog
       IN  /\ bpf_prog_offload_devs' = ListAddTail(bpf_prog_offload_devs, p)
           /\ refcnt' = [refcnt EXCEPT ![offl[p].netdev] = @ - 1]
    /\ Goto(t, "init_up_write")
    /\ UNCHANGED <<rtnl, devs_writer, devs_readers, mem, offl, aux_offload,
                   prog_id, reg_state, destroy_calls, k, snap>>

\* Lines 60-62.
InitUpWrite(t) ==
    /\ th[t].pc = "init_up_write"
    /\ devs_writer' = NoOwner
    /\ Done(t, 0)
    /\ UNCHANGED <<rtnl, devs_readers, bpf_prog_offload_devs, mem, offl, aux_offload,
                   prog_id, reg_state, refcnt, destroy_calls, k, snap>>

\* Lines 63-64.
InitErrUnlock(t) ==
    /\ th[t].pc = "init_err_unlock"
    /\ devs_writer' = NoOwner
    /\ Goto(t, "init_err_maybe_put")
    /\ UNCHANGED <<rtnl, devs_readers, bpf_prog_offload_devs, mem, offl, aux_offload,
                   prog_id, reg_state, refcnt, destroy_calls, k, snap>>

\* Mutant of InitErrMaybePut: the error path forgets dev_put.
InitErrMaybePut_NoPut(t) ==
    /\ th[t].pc = "init_err_maybe_put"
    /\ mem' = Kfree(th[t].prog)
    /\ offl' = [offl EXCEPT ![th[t].prog] = ZeroOffload]
    /\ Done(t, th[t].ret)
    /\ UNCHANGED <<rtnl, devs_writer, devs_readers, bpf_prog_offload_devs, aux_offload,
                   prog_id, reg_state, refcnt, destroy_calls, k, snap>>

\* Lines 65-69: dev_put if a device was found, kfree, return err.
InitErrMaybePut(t) ==
    /\ th[t].pc = "init_err_maybe_put"
    /\ LET p == th[t].prog
       IN  /\ refcnt' = IF offl[p].netdev # NULL
                        THEN [refcnt EXCEPT ![offl[p].netdev] = @ - 1]
                        ELSE refcnt
           /\ mem' = Kfree(p)
           /\ offl' = [offl EXCEPT ![p] = ZeroOffload]
    /\ Done(t, th[t].ret)
    /\ UNCHANGED <<rtnl, devs_writer, devs_readers, bpf_prog_offload_devs, aux_offload,
                   prog_id, reg_state, destroy_calls, k, snap>>

\* ----------------------------------------------------- __bpf_offload_ndo
\* Lines 75-84: -ENODEV without a call when the descriptor has no device,
\* else whatever the driver's handler returns (drv).
bpf_offload_ndo(p, drv) == IF offl[p].netdev = NULL THEN -ENODEV ELSE drv

\* The entry conditions of the calls made on a program that init has bound:
\* init has returned, and the program is not being (and has not been) freed.
Bound(p) ==
    /\ aux_offload[p] # NULL
    /\ mem[p] = "live"
    /\ ~Running(p, "init")
    /\ ~Running(p, "destroy")

\* ---------------------------------------- bpf_prog_offload_verifier_prep
\* Line 94: the call, which starts by taking RTNL.
PrepRtnlLock(t, p) ==
    /\ th[t].pc = "idle"
    /\ Bound(p)
    /\ RtnlFree
    /\ rtnl' = t
    /\ Set(t, [IdleThread EXCEPT !.op = "prep", !.prog = p, !.pc = "prep_ndo"])
    /\ UNCHANGED <<devs_writer, devs_readers, bpf_prog_offload_devs, mem, offl,
                   aux_offload, prog_id, reg_state, refcnt, destroy_calls,
                   k, snap>>

\* Mutant of PrepNdo: lines 96-97 are missing, the hook table and dev_state
\* are stored whatever the command returned.
PrepNdo_StoresAlways(t, drv) ==
    /\ th[t].pc = "prep_ndo"
    /\ LET p == th[t].prog
       IN  /\ offl' = [offl EXCEPT ![p].dev_ops = DriverOps(offl[p].netdev),
                                   ![p].dev_state = TRUE]
           /\ Set(t, [th[t] EXCEPT !.pc = "prep_rtnl_unlock",
                                   !.ret = bpf_offload_ndo(p, drv)])
    /\ UNCHANGED <<rtnl, devs_writer, devs_readers, bpf_prog_offload_devs, mem,
                   aux_offload, prog_id, reg_state, refcnt, destroy_calls,
                   k, snap>>

\* Lines 95-100: the VERIFIER_PREP command; on success the hook table and
\* dev_state are stored.
PrepNdo(t, drv) ==
    /\ th[t].pc = "prep_ndo"
    /\ LET p == th[t].prog
           err == bpf_offload_ndo(p, drv)
       IN  /\ offl' = IF err # 0 THEN offl
                      ELSE [offl EXCEPT ![p].dev_ops = DriverOps(offl[p].netdev),
                                        ![p].dev_state = TRUE]
           /\ Set(t, [th[t] EXCEPT !.pc = "prep_rtnl_unlock", !.ret = err])
    /\ UNCHANGED <<rtnl, devs_writer, devs_readers, bpf_prog_offload_devs, mem,
                   aux_offload, prog_id, reg_state, refcnt, destroy_calls,
                   k, snap>>

\* Lines 101-103.
PrepRtnlUnlock(t) ==
    /\ th[t].pc = "prep_rtnl_unlock"
    /\ rtnl' = NoOwner
    /\ Exit(t)
    /\ UNCHANGED <<devs_writer, devs_readers, bpf_prog_offload_devs, mem, offl,
                   aux_offload, prog_id, reg_state, refcnt, destroy_calls,
                   k, snap>>

\* ------------------------------------------ bpf_prog_offload_verify_insn
\* Lines 110-111: ret starts as -ENODEV and the read lock is taken.  late
\* records that the descriptor's device was already cleared by then.
VerifyInsnDownRead(t, p, idx) ==
    /\ th[t].pc = "idle"
    /\ Bound(p)
    /\ ReadLockFree
    /\ devs_readers' = devs_readers \cup {t}
    /\ Set(t, [IdleThread EXCEPT !.op = "verify_insn", !.prog = p, !.idx = idx,
                                 !.ret = -ENODEV, !.pc = "vi_locked",
                                 !.late = (offl[p].netdev = NULL)])
    /\ UNCHANGED <<rtnl, devs_writer, bpf_prog_offload_devs, mem, offl,
                   aux_offload, prog_id, reg_state, refcnt, destroy_calls,
                   k, snap>>

\* Mutant of VerifyInsnCheck: line 113 tests the hook table, not the netdev.
VerifyInsnCheck_TestsOps(t) ==
    /\ th[t].pc = "vi_locked"
    /\ LET offload == aux_offload[th[t].prog]
       IN  IF offl[offload].dev_ops = NULL THEN Goto(t, "vi_up_read")
           ELSE Goto(t, "vi_in_hook")
    /\ UNCHANGED <<rtnl, devs_writer, devs_readers, bpf_prog_offload_devs, mem, offl,
                   aux_offload, prog_id, reg_state, refcnt, destroy_calls,
                   k, snap>>

\* Lines 112-114 up to the call: with a device the hook table is dereferenced
\* and insn_hook entered; a NULL dev_ops is a NULL pointer dereference, which
\* kills the thread where it stands (with the read lock held).
VerifyInsnCheck(t) ==
    /\ th[t].pc = "vi_locked"
    /\ LET offload == aux_offload[th[t].prog]
       IN  IF offl[offload].netdev = NULL THEN Goto(t, "vi_up_read")
           ELSE IF offl[offload].dev_ops = NULL
           THEN Set(t, [th[t] EXCEPT !.pc = "oops", !.idx = 0])
           ELSE Goto(t, "vi_in_hook")
    /\ UNCHANGED <<rtnl, devs_writer, devs_readers, bpf_prog_offload_devs, mem, offl,
                   aux_offload, prog_id, reg_state, refcnt, destroy_calls,
                   k, snap>>

\* Line 114: insn_hook returns and its verdict is stored in ret.
VerifyInsnHookReturn(t) ==
    /\ th[t].pc = "vi_in_hook"
    /\ Set(t, [th[t] EXCEPT !.pc = "vi_up_read",
                            !.ret = InsnHook(offl[aux_offload[th[t].prog]].dev_ops,
                                             th[t].idx)])
    /\ UNCHANGED <<rtnl, devs_writer, devs_readers, bpf_prog_offload_devs, mem, offl,
                   aux_offload, prog_id, reg_state, refcnt, destroy_calls,
                   k, snap>>

\* Lines 115-116.
VerifyInsnUpRead(t) ==
    /\ th[t].pc = "vi_up_read"
    /\ devs_readers' = devs_readers \ {t}
    /\ Exit(t)
    /\ UNCHANGED <<rtnl, devs_writer, bpf_prog_offload_devs, mem, offl,
                   aux_offload, prog_id, reg_state, refcnt, destroy_calls,
                   k, snap>>

\* ------------------- bpf_prog_offload_compile, bpf_prog_offload_translate
\* Lines 173 and 157: translate takes RTNL.  (Line 173 rewires prog->bpf_func,
\* a field nothing here reads; it is not part of the state.)
TranslateRtnlLock(t, p) ==
    /\ th[t].pc = "idle"
    /\ Bound(p)
    /\ RtnlFree
    /\ rtnl' = t
    /\ Set(t, [IdleThread EXCEPT !.op = "translate", !.prog = p, !.pc = "tr_ndo"])
    /\ UNCHANGED <<devs_writer, devs_readers, bpf_prog_offload_devs, mem, offl,
                   aux_offload, prog_id, reg_state, refcnt, destroy_calls, k, snap>>

\* Line 158.
TranslateNdo(t, drv) ==
    /\ th[t].pc = "tr_ndo"
    /\ Set(t, [th[t] EXCEPT !.pc = "tr_rtnl_unlock",
                            !.ret = bpf_offload_ndo(th[t].prog, drv)])
    /\ UNCHANGED <<rtnl, devs_writer, devs_readers, bpf_prog_offload_devs, mem, offl,
                   aux_offload, prog_id, reg_state, refcnt, destroy_calls,
                   k, snap>>

\* Lines 159-161.
TranslateRtnlUnlock(t) ==
    /\ th[t].pc = "tr_rtnl_unlock"
    /\ rtnl' = NoOwner
    /\ Exit(t)
    /\ UNCHANGED <<devs_writer, devs_readers, bpf_prog_offload_devs, mem, offl,
                   aux_offload, prog_id, reg_state, refcnt, destroy_calls,
                   k, snap>>

\* -------------------------------------------- __bpf_prog_offload_destroy
\* Mutant of DestroyNdoCalls: the DESTROY command is sent whatever dev_state
\* says.
DestroyNdoCalls_Always(p) ==
    IF offl[p].netdev # NULL
    THEN [destroy_calls EXCEPT ![p] = @ + 1]
    ELSE destroy_calls

\* Lines 126-127: the DESTROY command goes to the driver when dev_state is set
\* and __bpf_offload_ndo finds a device; its result is only warned about.
DestroyNdoCalls(p) ==
    IF offl[p].dev_state /\ offl[p].netdev # NULL
    THEN [destroy_calls EXCEPT ![p] = @ + 1]
    ELSE destroy_calls

\* Lines 126-127: what WARN_ON is given: 0 without dev_state, else the result
\* of __bpf_offload_ndo, which is the driver's (drv) when there is a device.
DestroyNdoResult(p, drv) == IF offl[p].dev_state THEN bpf_offload_ndo(p, drv) ELSE 0

\* Line 130: bpf_prog_free_id.
DestroyFreeId(p) == [prog_id EXCEPT ![p] = FALSE]

\* Mutant of DestroyFields: line 134 is missing, the netdev is kept.
DestroyFields_KeepsNetdev(p) == [offl EXCEPT ![p].dev_state = FALSE]

\* Mutant of DestroyFields: lines 132 and 134 are missing.
DestroyFields_Nothing(p) == offl

\* Lines 132 and 134.
DestroyFields(p) == [offl EXCEPT ![p].dev_state = FALSE, ![p].netdev = NULL]

\* Line 133.
DestroyListDel(p) == ListDelInit(bpf_prog_offload_devs, p)

\* ---------------------------------------------- bpf_prog_offload_destroy
\* Mutant of DestroyLockOrder: bpf_devs_lock first.
DestroyLockOrder_Reversed == <<"bpf_devs_lock", "rtnl">>

\* Lines 141-142: the two locks of destroy, in the order they are taken.
DestroyLockOrder == <<"rtnl", "bpf_devs_lock">>

\* rtnl_lock, or down_write(&bpf_devs_lock).
Acquire(t, lock) ==
    IF lock = "rtnl"
    THEN RtnlFree /\ rtnl' = t /\ UNCHANGED devs_writer
    ELSE WriteLockFree /\ devs_writer' = t /\ UNCHANGED rtnl

\* Lines 139-141: the program is being freed, so no other call runs on it;
\* offload is read, then the first lock taken.
DestroyRtnlLock(t, p) ==
    /\ th[t].pc = "idle"
    /\ aux_offload[p] # NULL
    /\ mem[p] = "live"
    /\ ~Busy(p)
    /\ Acquire(t, DestroyLockOrder[1])
    /\ Set(t, [IdleThread EXCEPT !.op = "destroy", !.prog = p, !.pc = "destroy_down_write"])
    /\ UNCHANGED <<devs_readers, bpf_prog_offload_devs, mem, offl,
                   aux_offload, prog_id, reg_state, refcnt, destroy_calls,
                   k, snap>>

\* Line 142.
DestroyDownWrite(t) ==
    /\ th[t].pc = "destroy_down_write"
    /\ Acquire(t, DestroyLockOrder[2])
    /\ Goto(t, "destroy_ndo")
    /\ UNCHANGED <<devs_readers, bpf_prog_offload_devs, mem, offl,
                   aux_offload, prog_id, reg_state, refcnt, destroy_calls,
                   k, snap>>

\* Mutant of DestroyNdo: bpf_prog_free_id (line 130) comes before the DESTROY
\* command.
DestroyNdo_FreesIdFirst(t, drv) ==
    /\ th[t].pc = "destroy_ndo"
    /\ destroy_calls[th[t].prog] < MaxCalls
    /\ prog_id' = DestroyFreeId(th[t].prog)
    /\ destroy_calls' = DestroyNdoCalls(th[t].prog)
    /\ mem' = Deref(th[t].prog)
    /\ Set(t, [th[t] EXCEPT !.pc = "destroy_unlink",
                            !.ret = DestroyNdoResult(th[t].prog, drv)])
    /\ UNCHANGED <<rtnl, devs_writer, devs_readers, bpf_prog_offload_devs, offl,
                   aux_offload, reg_state, refcnt, k, snap>>

\* Lines 143, 121, 126-127: the descriptor is read and, with dev_state, the
\* DESTROY command sent; ret keeps what WARN_ON was given until the function
\* returns (nothing reads it).
DestroyNdo(t, drv) ==
    /\ th[t].pc = "destroy_ndo"
    /\ destroy_calls[th[t].prog] < MaxCalls
    /\ destroy_calls' = DestroyNdoCalls(th[t].prog)
    /\ mem' = Deref(th[t].prog)
    /\ Set(t, [th[t] EXCEPT !.pc = "destroy_unlink",
                            !.ret = DestroyNdoResult(th[t].prog, drv)])
    /\ UNCHANGED <<rtnl, devs_writer, devs_readers, bpf_prog_offload_devs, offl,
                   aux_offload, prog_id, reg_state, refcnt, k, snap>>

\* Mutant of DestroyUnlink: a failed DESTROY command aborts the teardown.
DestroyUnlink_AbortsOnError(t) ==
    /\ th[t].pc = "destroy_unlink"
    /\ IF th[t].ret # 0
       THEN UNCHANGED <<prog_id, offl, bpf_prog_offload_devs>>
       ELSE /\ prog_id' = DestroyFreeId(th[t].prog)
            /\ offl' = DestroyFields(th[t].prog)
            /\ bpf_prog_offload_devs' = DestroyListDel(th[t].prog)
    /\ Goto(t, "destroy_up_write")
    /\ UNCHANGED <<rtnl, devs_writer, devs_readers, mem, aux_offload,
                   reg_state, refcnt, destroy_calls, k, snap>>

\* Lines 130-134: the id is withdrawn, dev_state reset, the descriptor
\* unlinked and its netdev cleared.
DestroyUnlink(t) ==
    /\ th[t].pc = "destroy_unlink"
    /\ prog_id' = DestroyFreeId(th[t].prog)
    /\ offl' = DestroyFields(th[t].prog)
    /\ bpf_prog_offload_devs' = DestroyListDel(th[t].prog)
    /\ Goto(t, "destroy_up_write")
    /\ UNCHANGED <<rtnl, devs_writer, devs_readers, mem, aux_offload,
                   reg_state, refcnt, destroy_calls, k, snap>>

\* Lines 144-148: up_write, rtnl_unlock, then kfree of the descriptor read at
\* line 139.
DestroyUnlock(t) ==
    /\ th[t].pc = "destroy_up_write"
    /\ devs_writer' = NoOwner
    /\ rtnl' = NoOwner
    /\ mem' = Kfree(th[t].prog)
    /\ offl' = [offl EXCEPT ![th[t].prog] = ZeroOffload]
    /\ Exit(t)
    /\ UNCHANGED <<devs_readers, bpf_prog_offload_devs,
                   aux_offload, prog_id, reg_state, refcnt, destroy_calls,
                   k, snap>>

\* bpf_prog_offload_destroy called once more on a program whose descriptor the
\* first call freed: line 139 reads the dangling prog->aux->offload.  What the
\* freed memory holds by then is anything (dev_state, netdev).
DestroyFreed(t, p, dev_state, netdev) ==
    /\ th[t].pc = "idle"
    /\ aux_offload[p] # NULL
    /\ mem[p] = "freed"
    /\ ~Busy(p)
    /\ Acquire(t, DestroyLockOrder[1])
    /\ offl' = [offl EXCEPT ![p].dev_state = dev_state, ![p].netdev = netdev]
    /\ Set(t, [IdleThread EXCEPT !.op = "destroy", !.prog = p, !.pc = "destroy_down_write"])
    /\ UNCHANGED <<devs_readers, bpf_prog_offload_devs, mem,
                   aux_offload, prog_id, reg_state, refcnt, destroy_calls,
                   k, snap>>

\* ------------ bpf_prog_offload_info_fill, bpf_prog_offload_info_fill_ns
\* Lines 220, 190: ns_get_path_cb calls info_fill_ns, which takes RTNL.  The
\* caller holds a reference to the program, which therefore is not being freed.
InfoRtnlLock(t, p) ==
    /\ \/ /\ th[t].pc = "idle"
          /\ mem[p] # "freed"
          /\ ~Running(p, "destroy")
       \/ th[t].pc = "info_again" /\ th[t].prog = p
    /\ RtnlFree
    /\ rtnl' = t
    /\ Set(t, [IdleThread EXCEPT !.op = "info_fill", !.prog = p, !.pc = "info_down_read"])
    /\ UNCHANGED <<devs_writer, devs_readers, bpf_prog_offload_devs, mem, offl,
                   aux_offload, prog_id, reg_state, refcnt, destroy_calls,
                   k, snap>>

\* Line 191.
InfoDownRead(t) ==
    /\ th[t].pc = "info_down_read"
    /\ ReadLockFree
    /\ devs_readers' = devs_readers \cup {t}
    /\ Goto(t, "info_locked")
    /\ UNCHANGED <<rtnl, devs_writer, bpf_prog_offload_devs, mem, offl,
                   aux_offload, prog_id, reg_state, refcnt, destroy_calls,
                   k, snap>>

\* Lines 193-206: with a descriptor, netdev->ifindex is read (a NULL netdev is
\* a NULL pointer dereference, which kills the thread with both locks held);
\* then both locks are released.
InfoFillNs(t) ==
    /\ th[t].pc = "info_locked"
    /\ LET offload == aux_offload[th[t].prog]
       IN  IF offload # NULL /\ offl[offload].netdev = NULL
           THEN /\ Goto(t, "oops")
                /\ UNCHANGED <<rtnl, devs_readers>>
           ELSE /\ Set(t, [th[t] EXCEPT
                             !.pc = "info_path",
                             !.ifindex = IF offload = NULL THEN 0 ELSE offl[offload].netdev,
                             !.ns = (offload # NULL)])
                /\ devs_readers' = devs_readers \ {t}
                /\ rtnl' = NoOwner
    /\ UNCHANGED <<devs_writer, bpf_prog_offload_devs, mem, offl,
                   aux_offload, prog_id, reg_state, refcnt, destroy_calls,
                   k, snap>>

\* What ns_get_path_cb may answer once the callback has returned ns: -ENOENT
\* without a namespace; else the path (0), an error, or a retry of the callback.
NsPathResults(ns) == IF ns THEN {0, -ENOMEM, -EAGAIN} ELSE {-ENOENT}

\* Lines 220-232.
InfoPath(t, res) ==
    /\ th[t].pc = "info_path"
    /\ res \in NsPathResults(th[t].ns)
    /\ IF res = -EAGAIN THEN Set(t, [th[t] EXCEPT !.pc = "info_again", !.ifindex = 0,
                                                  !.ns = FALSE])
       ELSE IF res # 0 THEN Done(t, IF th[t].ifindex = 0 THEN -ENODEV ELSE res)
       ELSE Done(t, 0)
    /\ UNCHANGED <<rtnl, devs_writer, devs_readers, bpf_prog_offload_devs, mem, offl,
                   aux_offload, prog_id, reg_state, refcnt, destroy_calls,
                   k, snap>>

\* ---------------------------------------------- bpf_offload_notification
\* Lines 249-253: the events that start a sweep.
SweepEvent(event, state) == event = NETDEV_UNREGISTER /\ state = NETREG_UNREGISTERING

\* The netdev core, under RTNL, delivers an event for a device to the notifier
\* (line 247).  With unreg the device is being unregistered: its reg_state has
\* become NETREG_UNREGISTERING before NETDEV_UNREGISTER is sent.  Without, the
\* event is any other one, among them the NETDEV_UNREGISTER of a namespace
\* change and the repeated NETDEV_UNREGISTER of a device waiting for its
\* references.  An event that starts no sweep returns at once (lines 253, 264,
\* 266) and RTNL is free again.  (DevPlain, which no descriptor can name, stays
\* registered.)
NetdevEvent(event, dev, unreg) ==
    /\ k.pc = "idle"
    /\ RtnlFree
    /\ unreg => event = NETDEV_UNREGISTER /\ reg_state[dev] = NETREG_REGISTERED
    /\ reg_state' = IF unreg THEN [reg_state EXCEPT ![dev] = NETREG_UNREGISTERING]
                    ELSE reg_state
    /\ IF SweepEvent(event, reg_state'[dev])
       THEN /\ rtnl' = Notifier
            /\ k' = [IdleNotifier EXCEPT !.pc = "sweep_down_write", !.dev = dev]
       ELSE UNCHANGED <<rtnl, k>>
    /\ UNCHANGED <<devs_writer, devs_readers, bpf_prog_offload_devs, mem, offl,
                   aux_offload, prog_id, refcnt, destroy_calls, th, snap>>

\* Lines 255-256: down_write, and the traversal starts at the head's successor
\* with tmp one entry ahead.
SweepDownWrite ==
    /\ k.pc = "sweep_down_write"
    /\ WriteLockFree
    /\ devs_writer' = Notifier
    /\ k' = [k EXCEPT !.pc = "sweep_loop",
                      !.cur = ListFirst(bpf_prog_offload_devs),
                      !.nxt = ListNext(bpf_prog_offload_devs,
                                       ListFirst(bpf_prog_offload_devs))]
    /\ snap' = [on |-> TRUE, offl |-> offl, devs |-> bpf_prog_offload_devs,
                calls |-> destroy_calls]
    /\ UNCHANGED <<rtnl, devs_readers, bpf_prog_offload_devs, mem, offl,
                   aux_offload, prog_id, reg_state, refcnt, destroy_calls, th>>

\* Mutant of SweepAdvance: list_for_each_entry, which follows the links of the
\* entry just visited (after list_del_init they lead back to itself; the walk
\* ends).
SweepAdvance_Unsafe(l) ==
    [k EXCEPT !.pc = "sweep_loop", !.cur = ListNext(l, k.cur),
              !.nxt = ListNext(l, ListNext(l, k.cur))]

\* list_for_each_entry_safe moves on: offload = tmp, tmp = the entry after tmp.
SweepAdvance(l) == [k EXCEPT !.pc = "sweep_loop", !.cur = k.nxt, !.nxt = ListNext(l, k.nxt)]

\* Lines 256-258: the loop's test and the comparison with the event's device.
SweepLoop ==
    /\ k.pc = "sweep_loop"
    /\ k' = IF k.cur = NULL THEN [k EXCEPT !.pc = "sweep_up_write"]
            ELSE IF offl[k.cur].netdev = k.dev THEN [k EXCEPT !.pc = "sweep_ndo"]
            ELSE SweepAdvance(bpf_prog_offload_devs)
    /\ UNCHANGED <<rtnl, devs_writer, devs_readers, bpf_prog_offload_devs, mem, offl,
                   aux_offload, prog_id, reg_state, refcnt, destroy_calls, th, snap>>

\* Lines 259, 126-127.
SweepNdo(drv) ==
    /\ k.pc = "sweep_ndo"
    /\ destroy_calls[k.cur] < MaxCalls
    /\ destroy_calls' = DestroyNdoCalls(k.cur)
    /\ k' = [k EXCEPT !.pc = "sweep_unlink", !.ret = DestroyNdoResult(k.cur, drv)]
    /\ UNCHANGED <<rtnl, devs_writer, devs_readers, bpf_prog_offload_devs, mem, offl,
                   aux_offload, prog_id, reg_state, refcnt, th, snap>>

\* Mutant of SweepUnlink: the sweep frees the descriptor it has unlinked.
SweepUnlink_Frees ==
    /\ k.pc = "sweep_unlink"
    /\ prog_id' = DestroyFreeId(k.cur)
    /\ offl' = DestroyFields(k.cur)
    /\ bpf_prog_offload_devs' = DestroyListDel(k.cur)
    /\ mem' = Kfree(k.cur)
    /\ k' = [SweepAdvance(bpf_prog_offload_devs') EXCEPT !.ret = 0]
    /\ UNCHANGED <<rtnl, devs_writer, devs_readers, aux_offload,
                   reg_state, refcnt, destroy_calls, th, snap>>

\* Lines 130-134, and the loop moves on.
SweepUnlink ==
    /\ k.pc = "sweep_unlink"
    /\ prog_id' = DestroyFreeId(k.cur)
    /\ offl' = DestroyFields(k.cur)
    /\ bpf_prog_offload_devs' = DestroyListDel(k.cur)
    /\ k' = [SweepAdvance(bpf_prog_offload_devs') EXCEPT !.ret = 0]
    /\ UNCHANGED <<rtnl, devs_writer, devs_readers, mem, aux_offload,
                   reg_state, refcnt, destroy_calls, th, snap>>

\* Lines 261-266: up_write, NOTIFY_OK, and the netdev core releases RTNL.
SweepUpWrite ==
    /\ k.pc = "sweep_up_write"
    /\ devs_writer' = NoOwner
    /\ rtnl' = NoOwner
    /\ k' = IdleNotifier
    /\ snap' = NoSnap
    /\ UNCHANGED <<devs_readers, bpf_prog_offload_devs, mem, offl,
                   aux_offload, prog_id, reg_state, refcnt, destroy_calls, th>>

\* The caller takes the result; the thread is free for the next call.
Return(t) ==
    /\ th[t].pc = "done"
    /\ Set(t, IdleThread)
    /\ UNCHANGED <<rtnl, devs_writer, devs_readers, bpf_prog_offload_devs, mem, offl,
                   aux_offload, prog_id, reg_state, refcnt, destroy_calls,
                   k, snap>>

\* The arguments of init, and whether its kzalloc fails.  ifindex and nomem
\* are not looked at when the capability or the flags reject the call.
InitInputs ==
    {[cap |-> c, flags |-> f, ifindex |-> DevX, nomem |-> FALSE] :
        c \in BOOLEAN, f \in {0, 1}}
    \cup {[cap |-> TRUE, flags |-> 0, ifindex |-> i, nomem |-> n] :
            i \in Ifindexes, n \in BOOLEAN}

Next ==
    \/ \E t \in Callers, p \in Progs, a \in InitInputs :
            InitCall(t, p, a.cap, a.flags, a.ifindex, a.nomem)
    \/ \E t \in Callers : InitDownWrite(t)
    \/ \E t \in Callers : InitRegState(t)
    \/ \E t \in Callers : InitListAdd(t)
    \/ \E t \in Callers : InitUpWrite(t)
    \/ \E t \in Callers : InitErrUnlock(t)
    \/ \E t \in Callers : InitErrMaybePut(t)
    \/ \E t \in Callers, p \in Progs : PrepRtnlLock(t, p)
    \/ \E t \in Callers, drv \in DriverResults : PrepNdo(t, drv)
    \/ \E t \in Callers : PrepRtnlUnlock(t)
    \/ \E t \in Callers, p \in Progs, idx \in Insns : VerifyInsnDownRead(t, p, idx)
    \/ \E t \in Callers : VerifyInsnCheck(t)
    \/ \E t \in Callers : VerifyInsnHookReturn(t)
    \/ \E t \in Callers : VerifyInsnUpRead(t)
    \/ \E t \in Callers, p \in Progs : TranslateRtnlLock(t, p)
    \/ \E t \in Callers, drv \in DriverResults : TranslateNdo(t, drv)
    \/ \E t \in Callers : TranslateRtnlUnlock(t)
    \/ \E t \in Callers, p \in Progs : DestroyRtnlLock(t, p)
    \/ \E t \in Callers : DestroyDownWrite(t)
    \/ \E t \in Callers, drv \in DriverResults : DestroyNdo(t, drv)
    \/ \E t \in Callers : DestroyUnlink(t)
    \/ \E t \in Callers : DestroyUnlock(t)
    \/ \E t \in Callers, p \in Progs : InfoRtnlLock(t, p)
    \/ \E t \in Callers : InfoDownRead(t)
    \/ \E t \in Callers : InfoFillNs(t)
    \/ \E t \in Callers, res \in {0, -ENOMEM, -ENOENT, -EAGAIN} : InfoPath(t, res)
    \/ \E event \in Events, dev \in {DevX, DevY}, unreg \in BOOLEAN :
            NetdevEvent(event, dev, unreg)
    \/ SweepDownWrite
    \/ SweepLoop
    \/ \E drv \in DriverResults : SweepNdo(drv)
    \/ SweepUnlink
    \/ SweepUpWrite
    \/ \E t \in Callers : Return(t)

Spec == Init /\ [][Next]_vars

\* The same, with callers that also destroy a program a second time.
NextReDestroy ==
    \/ Next
    \/ \E t \in Callers, p \in Progs, dev_state \in BOOLEAN, netdev \in {NULL, DevX} :
            DestroyFreed(t, p, dev_state, netdev)

SpecReDestroy == Init /\ [][NextReDestroy]_vars

\* ------------------------------------------------------------- fairness
\* The steps of a call in progress: everything but the start of a new call.
CallerStep(t) ==
    \/ InitDownWrite(t) \/ InitRegState(t) \/ InitListAdd(t) \/ InitUpWrite(t)
    \/ InitErrUnlock(t) \/ InitErrMaybePut(t)
    \/ (\E drv \in DriverResults : PrepNdo(t, drv)) \/ PrepRtnlUnlock(t)
    \/ VerifyInsnCheck(t) \/ VerifyInsnHookReturn(t) \/ VerifyInsnUpRead(t)
    \/ (\E drv \in DriverResults : TranslateNdo(t, drv)) \/ TranslateRtnlUnlock(t)
    \/ DestroyDownWrite(t) \/ (\E drv \in DriverResults : DestroyNdo(t, drv))
    \/ DestroyUnlink(t) \/ DestroyUnlock(t)
    \/ (th[t].pc = "info_again" /\ InfoRtnlLock(t, th[t].prog))
    \/ InfoDownRead(t) \/ InfoFillNs(t)
    \/ (\E res \in NsPathResults(th[t].ns) : InfoPath(t, res))
    \/ Return(t)

\* ns_get_path_cb comes to an answer: the path or an error, not -EAGAIN.
InfoPathEnds(t) == \E res \in {0, -ENOMEM, -ENOENT} : InfoPath(t, res)

\* The steps of a sweep in progress.
NotifierStep ==
    \/ SweepDownWrite \/ SweepLoop \/ (\E drv \in DriverResults : SweepNdo(drv))
    \/ SweepUnlink \/ SweepUpWrite

\* A thread is queued in down_write(&bpf_devs_lock).
WriterWaits ==
    \/ \E t \in Callers :
          th[t].pc \in {"init_down_write", "destroy_down_write"} /\ devs_writer # t
    \/ k.pc = "sweep_down_write"

\* The rw-semaphore queues its waiters: down_read does not overtake a writer
\* that waits.
NoOvertaking == WriterWaits => devs_readers' \subseteq devs_readers

NextFair == Next /\ NoOvertaking

\* Every thread is scheduled, every driver call returns, and the mutex and the
\* rw-semaphore serve their waiters in turn: a thread whose next step is
\* possible again and again takes it.  ns_get_path_cb asks for the callback
\* again (-EAGAIN) only while the namespace's dentry is dying, so it does not
\* do so for ever.
Fairness ==
    /\ \A t \in Callers : /\ SF_vars(CallerStep(t) /\ NoOvertaking)
                           /\ SF_vars(InfoPathEnds(t))
    /\ SF_vars(NotifierStep)

SpecFair == Init /\ [][NextFair]_vars /\ Fairness

\* ================================================================ claims

Threads == Callers \cup {Notifier}
HoldsDevsLock(t) == devs_writer = t \/ t \in devs_readers
Published(p) == aux_offload[p] = p /\ mem[p] = "live"

\* The registry as the running sweep found it when it took the write lock.
InSnap(p) == \E i \in 1 .. Len(snap.devs) : snap.devs[i] = p
WasBoundTo(p, d) == InSnap(p) /\ snap.offl[p].netdev = d
SweepDone == k.pc = "sweep_up_write"

\* C1: whenever nobody holds bpf_devs_lock in write mode, a descriptor that is
\* published to its program is linked in bpf_prog_offload_devs if and only if
\* its netdev is not NULL.
C1_LinkedIffNetdev ==
    devs_writer = NoOwner =>
        \A p \in Progs : Published(p) => (Linked(p) <=> offl[p].netdev # NULL)

\* C1 witness: with the write lock free, one published descriptor is linked
\* with its device and another one, torn down, is unlinked without device.
C1_Witness ==
    /\ devs_writer = NoOwner
    /\ \E p, q \in Progs :
        /\ Published(p) /\ Linked(p) /\ offl[p].netdev # NULL
        /\ Published(q) /\ ~Linked(q) /\ offl[q].netdev = NULL /\ ~prog_id[q]

\* C2 (as claimed): verify_insn on a bound descriptor never dereferences an
\* unset hook table; it returns the driver's verdict once verifier_prep has
\* succeeded and -ENODEV when it has not.
C2_VerifyInsnAsClaimed ==
    \A t \in Callers :
        th[t].op = "verify_insn" =>
            LET d == offl[th[t].prog]
            IN  /\ th[t].pc # "oops"
                /\ (th[t].pc = "vi_up_read" /\ d.netdev # NULL /\ d.dev_state)
                      => th[t].ret = InsnHook(DriverOps(d.netdev), th[t].idx)
                /\ (th[t].pc = "vi_up_read" /\ ~d.dev_state) => th[t].ret = -ENODEV

\* C3: insn_hook runs only while the descriptor still has its device and no
\* sweep holds the write lock, and a verify_insn that takes the read lock
\* after the device was cleared returns -ENODEV without entering the hook.
C3_NoHookAfterSweep ==
    \A t \in Callers :
        /\ th[t].pc = "vi_in_hook" =>
              /\ offl[th[t].prog].netdev # NULL
              /\ devs_writer = NoOwner
              /\ ~th[t].late
        /\ (th[t].op = "verify_insn" /\ th[t].late) =>
              /\ th[t].pc \in {"vi_locked", "vi_up_read"}
              /\ th[t].ret = -ENODEV

\* C3 witness: a hook runs on a descriptor of the device whose sweep waits for
\* the write lock, while another verify_insn, started after its descriptor
\* (once prepped) was swept, is about to return -ENODEV.
C3_Witness ==
    \E t1, t2 \in Callers :
        /\ th[t1].pc = "vi_in_hook"
        /\ k.pc = "sweep_down_write"
        /\ offl[th[t1].prog].netdev = k.dev
        /\ th[t2].pc = "vi_up_read" /\ th[t2].late /\ th[t2].ret = -ENODEV
        /\ offl[th[t2].prog].dev_ops # NULL
        /\ destroy_calls[th[t2].prog] = 1

\* C4: when the sweep for a device has walked the list, every descriptor that
\* was bound to the device is unbound (no netdev, dev_state reset, unlinked)
\* and every other published descriptor is as the sweep found it, in netdev,
\* dev_state, dev_ops and list membership.
C4_SweepFrame ==
    SweepDone =>
        \A p \in Progs :
            IF WasBoundTo(p, k.dev)
            THEN offl[p].netdev = NULL /\ ~offl[p].dev_state /\ ~Linked(p)
            ELSE Published(p) => (offl[p] = snap.offl[p] /\ (Linked(p) <=> InSnap(p)))

\* C4 witness: a finished sweep that unbound one descriptor and passed over a
\* prepped descriptor of the other device.
C4_Witness ==
    /\ SweepDone
    /\ \E p, q \in Progs :
        /\ WasBoundTo(p, k.dev) /\ ~Linked(p)
        /\ InSnap(q) /\ snap.offl[q].netdev # k.dev /\ snap.offl[q].dev_state
        /\ Linked(q) /\ offl[q].dev_state

\* C5 (as claimed): the sweep sends exactly one DESTROY for every descriptor
\* that was bound to the device, Bound or Prepped, and none for the others.
C5_OneDestroyPerBound ==
    SweepDone =>
        \A p \in Progs :
            destroy_calls[p] = snap.calls[p] + (IF WasBoundTo(p, k.dev) THEN 1 ELSE 0)

\* C5 (amended): the sweep sends exactly one DESTROY for every descriptor that
\* was bound to the device with dev_state set (Prepped), and none for the
\* descriptors that were only Bound nor for those of other devices.
C5_OneDestroyPerPrepped ==
    SweepDone =>
        \A p \in Progs :
            destroy_calls[p] = snap.calls[p]
                + (IF WasBoundTo(p, k.dev) /\ snap.offl[p].dev_state THEN 1 ELSE 0)

\* C5 witness: a finished sweep of two descriptors of the device, one prepped
\* (one DESTROY) and one only bound (none).
C5_Witness ==
    /\ SweepDone
    /\ \E p, q \in Progs :
        /\ WasBoundTo(p, k.dev) /\ snap.offl[p].dev_state /\ destroy_calls[p] = 1
        /\ WasBoundTo(q, k.dev) /\ ~snap.offl[q].dev_state /\ destroy_calls[q] = 0
        /\ ~Linked(p) /\ ~Linked(q)

\* C6: over a descriptor's life the driver gets the DESTROY command at most
\* once, whether the sweep or the explicit destroy comes first.
C6_DestroyAtMostOnce == \A p \in Progs : destroy_calls[p] <= 1

\* C6 witness: the sweep sent DESTROY and cleared the descriptor; the explicit
\* destroy, second under the write lock, has passed its dispatch step without
\* a second command.
C6_Witness ==
    \E t \in Callers :
        /\ th[t].op = "destroy" /\ th[t].pc = "destroy_unlink"
        /\ devs_writer = t
        /\ destroy_calls[th[t].prog] = 1
        /\ offl[th[t].prog].netdev = NULL
        /\ mem[th[t].prog] = "live"

\* C7 (as claimed): a second destroy of a program sends no driver command and
\* neither accesses nor frees the descriptor the first destroy freed.
C7_SecondDestroySafe ==
    \A p \in Progs :
        /\ mem[p] \notin {"used_after_free", "double_freed"}
        /\ destroy_calls[p] <= 1

\* C8: no thread takes RTNL, or waits for it, while it holds bpf_devs_lock in
\* either mode; so a thread that holds both took RTNL first.
WaitsForRtnl(t) ==
    /\ t \in Callers
    /\ rtnl # t
    /\ th[t].pc \in {"info_again", "destroy_down_write"}

C8_LockOrder ==
    [][\A t \in Threads :
          /\ (rtnl' = t /\ rtnl # t) => ~HoldsDevsLock(t)
          /\ WaitsForRtnl(t)' => ~HoldsDevsLock(t)']_vars

\* C8 witness: a caller holds both locks, the write lock taken second, while
\* another one, which holds nothing, waits for RTNL to call info_fill_ns again.
C8_Witness ==
    \E t \in Callers :
        /\ rtnl = t /\ devs_writer = t
        /\ \E u \in Callers : u # t /\ th[u].pc = "info_again"

\* C9: init without the capability returns -EPERM, and with the capability
\* but nonzero flags -EINVAL; the step that does so takes no lock and no
\* device reference and changes neither the registry, nor any descriptor, nor
\* any program's descriptor pointer.
C9_InitRejects ==
    [][\A t \in Callers :
          (th[t].pc = "idle" /\ th'[t].op = "init"
                /\ (~th'[t].cap \/ th'[t].flags # 0))
          => /\ th'[t].pc = "done"
             /\ th'[t].ret = (IF ~th'[t].cap THEN -EPERM ELSE -EINVAL)
             /\ UNCHANGED <<rtnl, devs_writer, devs_readers, bpf_prog_offload_devs,
                            mem, offl, aux_offload, refcnt, reg_state>>]_vars

\* C9 witness: one init rejected for the capability (with nonzero flags too),
\* another for its flags.
C9_Witness ==
    \E t, u \in Callers :
        /\ th[t].op = "init" /\ th[t].pc = "done"
        /\ ~th[t].cap /\ th[t].flags # 0 /\ th[t].ret = -EPERM
        /\ th[u].op = "init" /\ th[u].pc = "done"
        /\ th[u].cap /\ th[u].flags # 0 /\ th[u].ret = -EINVAL

\* C10: an init that fails after kzalloc fails with the code of its cause
\* (-EINVAL without device, -EOPNOTSUPP without handler, -EINVAL for a device
\* not NETREG_REGISTERED) and leaves nothing behind: the program has no
\* descriptor, the descriptor is freed and not in the list, the caller holds
\* no lock, and every reference taken on a device has been put.
HoldsDevRef(t, d) ==
    /\ th[t].op = "init"
    /\ th[t].pc \in {"init_down_write", "init_reg_state", "init_list_add",
                     "init_err_unlock", "init_err_maybe_put"}
    /\ offl[th[t].prog].netdev = d

C10_InitFailureLeavesNothing ==
    /\ \A d \in Devs : refcnt[d] = Cardinality({t \in Callers : HoldsDevRef(t, d)})
    /\ \A t \in Callers :
        LET p == th[t].prog
        IN  /\ (th[t].op = "init" /\ th[t].pc = "init_err_maybe_put") =>
                  /\ th[t].ret = (IF offl[p].netdev = NULL THEN -EINVAL
                                  ELSE IF ~HasNdoBpf(offl[p].netdev) THEN -EOPNOTSUPP
                                  ELSE -EINVAL)
                  /\ (offl[p].netdev # NULL /\ HasNdoBpf(offl[p].netdev))
                        => reg_state[offl[p].netdev] # NETREG_REGISTERED
                  /\ ~HoldsDevsLock(t)
                  /\ aux_offload[p] = NULL /\ ~Linked(p)
            /\ (th[t].op = "init" /\ th[t].pc = "done" /\ th[t].ret # 0 /\ p # 0) =>
                  /\ aux_offload[p] = NULL
                  /\ mem[p] # "live"
                  /\ ~Linked(p)
                  /\ ~HoldsDevsLock(t) /\ rtnl # t
                  /\ \A d \in Devs : ~HoldsDevRef(t, d)

\* C10 witness: one init has failed on a device without handler and returned;
\* another, whose device left NETREG_REGISTERED after the lookup, has released
\* the lock and is about to put the device and free the descriptor.
C10_Witness ==
    \E t, u \in Callers :
        /\ th[t].op = "init" /\ th[t].pc = "done" /\ th[t].ret = -EOPNOTSUPP
        /\ th[u].op = "init" /\ th[u].pc = "init_err_maybe_put"
        /\ offl[th[u].prog].netdev = DevX /\ th[u].ret = -EINVAL
        /\ refcnt[DevX] = 1 /\ refcnt[DevPlain] = 0

\* C11 (as claimed): info_fill never dereferences a NULL netdev; for a program
\* without bound device it reports ifindex 0 and returns 0, and for a bound
\* program it reports the device's nonzero ifindex.
C11_ReportAsClaimed ==
    \A t \in Callers :
        th[t].op = "info_fill" =>
            /\ th[t].pc # "oops"
            /\ (th[t].pc = "done" /\ th[t].ifindex = 0) => th[t].ret = 0
            /\ (th[t].pc \in {"info_path", "done"} /\ th[t].ns) => th[t].ifindex \in Devs

\* C12: for a device that is being unregistered, once its sweep has walked the
\* list no descriptor that is published or linked names the device; an init
\* that passed the registration check while the device is unregistering did so
\* before the sweep, which still waits for the write lock, and an init that
\* failed the check returns -EINVAL with nothing published or linked.
C12_NoStaleBinding ==
    \A d \in {DevX, DevY} :
        reg_state[d] = NETREG_UNREGISTERING =>
            /\ (k.dev = d => k.pc \in {"idle", "sweep_up_write"}) =>
                  \A p \in Progs :
                      (aux_offload[p] = p \/ Linked(p)) => offl[p].netdev # d
            /\ \A t \in Callers :
                  LET p == th[t].prog
                  IN  /\ (th[t].pc \in {"init_list_add", "init_up_write"}
                            /\ offl[p].netdev = d)
                         => (k.pc = "sweep_down_write" /\ k.dev = d)
                      /\ (th[t].pc = "init_err_unlock" /\ offl[p].netdev = d)
                         => (th[t].ret = -EINVAL /\ aux_offload[p] = NULL /\ ~Linked(p))

\* C12 witness: the device went NETREG_UNREGISTERING between the checks of two
\* inits: the first has inserted its descriptor, which the waiting sweep
\* will find; the second failed the check with -EINVAL.
C12_Witness ==
    \E t, u \in Callers :
        /\ th[t].op = "init" /\ th[t].pc = "done" /\ th[t].ret = 0
        /\ Linked(th[t].prog) /\ offl[th[t].prog].netdev = DevX
        /\ reg_state[DevX] = NETREG_UNREGISTERING
        /\ k.pc = "sweep_down_write" /\ k.dev = DevX
        /\ th[u].op = "init" /\ th[u].pc = "init_err_maybe_put"
        /\ th[u].ret = -EINVAL /\ offl[th[u].prog].netdev = DevX

\* C13 (as claimed): a thread that checks the device's reg_state in init, or
\* inserts the descriptor into the list, holds RTNL and bpf_devs_lock in
\* write mode.
C13_InitHoldsBothLocks ==
    \A t \in Callers :
        th[t].pc \in {"init_reg_state", "init_list_add"} =>
            (devs_writer = t /\ rtnl = t)

\* C14 (as claimed): a step that writes the netdev, dev_state or dev_ops of a
\* published descriptor is taken while bpf_devs_lock is held in write mode,
\* hence with no thread holding it in read mode.
C14_WritesUnderWriteLock ==
    [][\A p \in Progs :
          (Published(p) /\ Published(p)' /\ offl'[p] # offl[p])
          => (devs_writer # NoOwner /\ devs_readers = {})]_vars

\* C15: when the driver fails the DESTROY command, the teardown goes on as it
\* does on success: the next step withdraws the id, resets dev_state, unlinks
\* the descriptor and clears its netdev; the explicit destroy then releases
\* both locks, frees the descriptor and returns nothing to its caller, and the
\* sweep moves on to the next entry without freeing.
C15_DestroyErrorIgnored ==
    [][/\ \A t \in Callers, p \in Progs :
            (th[t].op = "destroy" /\ th[t].prog = p /\ th[t].ret # 0
                  /\ th'[t] # th[t]) =>
                /\ th[t].pc = "destroy_unlink" =>
                      /\ th'[t].pc = "destroy_up_write"
                      /\ offl'[p].netdev = NULL /\ ~offl'[p].dev_state
                      /\ ~Linked(p)' /\ ~prog_id'[p]
                      /\ rtnl' = t /\ devs_writer' = t
                /\ th[t].pc = "destroy_up_write" =>
                      /\ th'[t] = IdleThread
                      /\ mem[p] = "live" /\ mem'[p] = "freed"
                      /\ ~Linked(p)'
                      /\ rtnl' = NoOwner /\ devs_writer' = NoOwner
       /\ \A p \in Progs :
            (k.pc = "sweep_unlink" /\ k.cur = p /\ k.ret # 0 /\ k' # k) =>
                /\ k'.pc = "sweep_loop"
                /\ offl'[p].netdev = NULL /\ ~offl'[p].dev_state
                /\ ~Linked(p)' /\ ~prog_id'[p]
                /\ mem'[p] = "live"]_vars

\* C15 witness: the driver failed the DESTROY command of an explicit destroy,
\* whose descriptor is unlinked and cleared all the same.
C15_Witness ==
    \E t \in Callers :
        /\ th[t].op = "destroy" /\ th[t].pc = "destroy_up_write"
        /\ th[t].ret = -EINVAL
        /\ destroy_calls[th[t].prog] = 1
        /\ offl[th[t].prog].netdev = NULL /\ ~Linked(th[t].prog)

\* C16: when the VERIFIER_PREP dispatch fails, with the driver's error or with
\* -ENODEV for a descriptor without device, verifier_prep keeps that error as
\* its result and changes no descriptor, no program's descriptor pointer and
\* not the list; its last step releases RTNL and changes nothing else.
C16_PrepFailureLeavesBound ==
    [][\A t \in Callers, p \in Progs :
          /\ (th[t].pc = "prep_ndo" /\ th[t].prog = p /\ th'[t] # th[t]
                    /\ th'[t].ret # 0) =>
                /\ th'[t].pc = "prep_rtnl_unlock"
                /\ th'[t].ret = (IF offl[p].netdev = NULL THEN -ENODEV ELSE -EINVAL)
                /\ rtnl' = t
                /\ UNCHANGED <<offl, aux_offload, bpf_prog_offload_devs, mem>>
          /\ (th[t].pc = "prep_rtnl_unlock" /\ th[t].prog = p /\ th'[t] # th[t]) =>
                /\ th'[t] = IdleThread
                /\ rtnl = t /\ rtnl' = NoOwner
                /\ UNCHANGED <<offl, aux_offload, bpf_prog_offload_devs, mem>>]_vars

\* C16 witness: the driver has failed VERIFIER_PREP for a bound descriptor,
\* which is still linked with its device, without hook table or dev_state,
\* while the other program's descriptor, swept, has no device any more.
C16_Witness ==
    \E t \in Callers, q \in Progs :
        /\ th[t].op = "prep" /\ th[t].pc = "prep_rtnl_unlock"
        /\ th[t].ret = -EINVAL
        /\ offl[th[t].prog].netdev = DevX /\ Linked(th[t].prog)
        /\ offl[th[t].prog].dev_ops = NULL /\ ~offl[th[t].prog].dev_state
        /\ Published(q) /\ offl[q].netdev = NULL

\* A descriptor whose device has been cleared, by the sweep or by destroy
\* (which then freed it).
Cleared(p) == aux_offload[p] = p /\ (offl[p].netdev = NULL \/ mem[p] # "live")

\* C17 (as claimed): once a descriptor's device is cleared it stays cleared
\* and unlinked, dev_state is not set again, no step sends the driver a
\* DESTROY command for the program or enters its insn_hook, and verifier_prep
\* and translate get -ENODEV.
C17_DestroyedIsTerminal ==
    [][\A p \in Progs :
          Cleared(p) =>
              /\ Cleared(p)'
              /\ ~Linked(p) /\ ~Linked(p)'
              /\ mem'[p] = "live" => ~offl'[p].dev_state
              /\ destroy_calls'[p] = destroy_calls[p]
              /\ \A t \in Callers :
                    /\ (th'[t].prog = p) => th'[t].pc # "vi_in_hook"
                    /\ (th[t].prog = p /\ th[t].pc \in {"prep_ndo", "tr_ndo"}
                            /\ th'[t] # th[t]) => th'[t].ret = -ENODEV]_vars

\* The thread that is in the teardown (__bpf_prog_offload_destroy) of p, past
\* lines 126-127 and before line 130.
TearsDown(p) ==
    \/ \E t \in Callers : th[t].op = "destroy" /\ th[t].pc = "destroy_unlink"
                              /\ th[t].prog = p
    \/ k.pc = "sweep_unlink" /\ k.cur = p

\* C18 (as claimed): when the DESTROY command is sent for a program, its id
\* has already been withdrawn.
C18_IdFreedBeforeDestroy ==
    [][\A p \in Progs : destroy_calls'[p] > destroy_calls[p] => ~prog_id[p]]_vars

\* C18 (amended): the DESTROY command is sent while the program's id is still
\* published, and the id is withdrawn by the next step of the same teardown:
\* when the id of a prepped descriptor is withdrawn, the driver has got its
\* DESTROY command already.
C18_IdFreedAfterDestroy ==
    [][\A p \in Progs :
          /\ destroy_calls'[p] > destroy_calls[p] =>
                (prog_id[p] /\ prog_id'[p] /\ TearsDown(p)')
          /\ (prog_id[p] /\ ~prog_id'[p]) =>
                /\ TearsDown(p)
                /\ destroy_calls'[p] = destroy_calls[p]
                /\ (offl[p].dev_state /\ offl[p].netdev # NULL) => destroy_calls[p] = 1]_vars

\* C18 witness: the explicit destroy of a prepped descriptor has sent DESTROY
\* and is about to withdraw the id, which is still published.
C18_Witness ==
    \E t \in Callers :
        /\ th[t].op = "destroy" /\ th[t].pc = "destroy_unlink"
        /\ offl[th[t].prog].dev_state /\ offl[th[t].prog].netdev # NULL
        /\ destroy_calls[th[t].prog] = 1
        /\ prog_id[th[t].prog]

\* C19 (as claimed): a step that frees a descriptor is the last step of an
\* explicit destroy of its program, and the descriptor is unlinked and without
\* device by then.
C19_FreedOnlyByDestroy ==
    [][\A p \in Progs :
          (mem[p] = "live" /\ mem'[p] # "live") =>
              /\ \E t \in Callers : th[t].op = "destroy" /\ th[t].prog = p
              /\ ~Linked(p) /\ offl[p].netdev = NULL]_vars

\* C19 (amended): a descriptor is freed either by the last step of the
\* explicit destroy of its program, published, unlinked and without device,
\* with both locks released by that step, or by the error path of the init
\* that allocated it, never published nor linked; no step of the notifier
\* frees one.  With one explicit destroy per program a descriptor is freed
\* once, is never used after that, and no freed descriptor is in the list or
\* held by the sweep's traversal.
C19_FreedOnce ==
    /\ [](\A p \in Progs :
            /\ mem[p] \notin {"used_after_free", "double_freed"}
            /\ mem[p] # "live" => (~Linked(p) /\ k.cur # p /\ k.nxt # p))
    /\ [][/\ \A p \in Progs :
              /\ (mem[p] = "live" /\ mem'[p] # "live") =>
                    \/ /\ \E t \in Callers :
                              /\ th[t].op = "destroy" /\ th[t].prog = p
                              /\ th[t].pc = "destroy_up_write"
                              /\ devs_writer = t /\ devs_writer' = NoOwner
                       /\ aux_offload[p] = p /\ ~Linked(p) /\ offl[p].netdev = NULL
                       /\ mem'[p] = "freed"
                    \/ /\ \E t \in Callers :
                              /\ th[t].op = "init" /\ th[t].prog = p
                              /\ th[t].pc = "init_err_maybe_put"
                       /\ aux_offload[p] = NULL /\ ~Linked(p)
                       /\ mem'[p] = "none"
              /\ mem[p] = "freed" => mem'[p] = "freed"
          /\ k' # k => mem' = mem]_vars

\* C19 witness: the explicit destroy of a descriptor that a sweep has already
\* unlinked and cleared (after its DESTROY command) is under way, and the
\* other program's descriptor has been freed by its destroy.
C19_Witness ==
    \E t \in Callers, q \in Progs :
        /\ th[t].op = "destroy" /\ th[t].pc = "destroy_ndo"
        /\ mem[th[t].prog] = "live"
        /\ offl[th[t].prog].netdev = NULL /\ ~Linked(th[t].prog)
        /\ destroy_calls[th[t].prog] = 1
        /\ mem[q] = "freed" /\ ~Linked(q)

\* C20 (as claimed): with fair scheduling and driver calls that return, every
\* call in progress and every sweep in progress comes to its end, with none
\* of the two locks held by its thread.
C20_EveryCallCompletes ==
    /\ \A t \in Callers :
          (th[t].pc \notin {"idle", "done"})
              ~> (th[t].pc \in {"idle", "done"} /\ rtnl # t /\ ~HoldsDevsLock(t))
    /\ (k.pc # "idle")
          ~> (k.pc = "idle" /\ rtnl # Notifier /\ ~HoldsDevsLock(Notifier))

====
